---- MODULE Spec2Model ----
(***************************************************************************)
(* The database schema of the foodgram recipe application                  *)
(* (backend/recipes/models.py and the users / recipes migrations) as a     *)
(* state machine.  The state is the content of the tables; the actions are *)
(* the ORM operations the schema admits: Model.save() on a new or an       *)
(* existing row, with or without a preceding Model.full_clean(), and       *)
(* Model.delete() with the on_delete rules of the foreign keys.            *)
(*                                                                         *)
(* What a declaration means is the framework's (Django 3.2) meaning:       *)
(*   - validators=[...] and choices=[...] are run by full_clean() only;    *)
(*     save() does not run them;                                           *)
(*   - unique=True, UniqueConstraint, foreign keys and the >= 0 check of   *)
(*     the Positive*IntegerField column types are database constraints:    *)
(*     save() fails with IntegrityError and writes nothing;                *)
(*   - default=... fills a field the caller did not set;                   *)
(*   - auto_now_add=True sets the field in pre_save when the row is        *)
(*     inserted, and not afterwards;                                       *)
(*   - on_delete=CASCADE deletes the referencing rows, transitively.       *)
(***************************************************************************)
EXTENDS Integers, FiniteSets, TLC

\* ------------------------------------------------------------------ bounds
MaxUserId == 2
MaxRecipeId == 2
MaxIngredientId == 2
MaxTagId == 2
MaxQuantityId == 2
MaxFavoriteId == 2
MaxCartId == 2
MaxTime == 1
MaxFew == 1

\* ------------------------------------------------------------- input values
RoleInputs == {"guest", "authorized", "admin", "root"}
AmountInputs == (-1)..2
CookingTimeInputs == (-1)..2
IngredientNames == {"salt", "sugar"}
MeasurementUnits == {"g", "kg"}
TagNames == {"breakfast", "dinner"}
TagColors == {"#49B64E", "#E26C2D"}
TagSlugs == {"breakfast", "dinner"}
RecipeNames == {"soup", "pie"}
RecipeTexts == {"boil", "bake"}
RecipeImages == {"", "recipes/images/a.png"}

VARIABLES
    users,                  \* rows of users_user: [id, role]
    ingredients,            \* rows of recipes_ingredient: [id, name, measurement_unit]
    tags,                   \* rows of recipes_tag: [id, name, color, slug]
    recipes,                \* rows of recipes_recipe
    recipe_tags,            \* rows of recipes_recipe_tags: [recipe, tag]
    quantity_ingredients,   \* rows of recipes_quantityingredient
    favorites,              \* rows of recipes_favorite: [id, recipe, user]
    carts,                  \* rows of recipes_cart: [id, recipe, user]
    seq,                    \* last id each table's AutoField gave out; ids are not reused
    now,                    \* the clock timezone.now() reads
    last                    \* the last operation, its arguments and its outcome

vars == <<users, ingredients, tags, recipes, recipe_tags, quantity_ingredients,
          favorites, carts, seq, now, last>>

Tables == {"users", "ingredients", "tags", "recipes", "quantity_ingredients",
           "favorites", "carts"}

Ids(rows) == {r.id : r \in rows}

\* A field the caller may leave unset: given is {} or {value}.
FieldValue(given, default) == IF given = {} THEN default ELSE CHOOSE v \in given : TRUE

Optional(S) == {{}} \cup {{v} : v \in S}

\* last records the arguments the properties below read, NoArgs otherwise.
NoArgs == <<>>

Outcome(op, args, status) == last' = [op |-> op, args |-> args, status |-> status]

\* --------------------------------------------------------- users: role field
RoleChoices == {"guest", "authorized", "admin"}

RoleDefault == "guest"

\* full_clean() of a user: the role must be one of the choices.
UserClean(row) == row.role \in RoleChoices

Init ==
    /\ users = {}
    /\ ingredients = {}
    /\ tags = {}
    /\ recipes = {}
    /\ recipe_tags = {}
    /\ quantity_ingredients = {}
    /\ favorites = {}
    /\ carts = {}
    /\ seq = [t \in Tables |-> 0]
    /\ now = 0
    /\ last = [op |-> "migrate", args |-> NoArgs, status |-> "ok"]

\* The clock advances between operations.
Tick ==
    /\ now < MaxTime
    /\ now' = now + 1
    /\ Outcome("Tick", NoArgs, "ok")
    /\ UNCHANGED <<users, ingredients, tags, recipes, recipe_tags,
                   quantity_ingredients, favorites, carts, seq>>

\* User(role=...).save(), after full_clean() when validate.
CreateUser(role, validate) ==
    /\ seq.users < MaxUserId
    /\ LET row == [id |-> seq.users + 1, role |-> FieldValue(role, RoleDefault)]
           args == [role |-> role]
       IN  IF validate /\ ~UserClean(row)
           THEN /\ Outcome("CreateUser", args, "ValidationError")
                /\ UNCHANGED <<users, seq>>
           ELSE /\ users' = users \cup {row}
                /\ seq' = [seq EXCEPT !.users = @ + 1]
                /\ Outcome("CreateUser", args, "ok")
    /\ UNCHANGED <<ingredients, tags, recipes, recipe_tags, quantity_ingredients,
                   favorites, carts, now>>

\* user.role = role; user.save(), after full_clean() when validate.
UpdateUser(id, role, validate) ==
    /\ id \in Ids(users)
    /\ LET row == [id |-> id, role |-> role]
           args == [role |-> {role}]
       IN  IF validate /\ ~UserClean(row)
           THEN /\ Outcome("UpdateUser", args, "ValidationError")
                /\ UNCHANGED users
           ELSE /\ users' = {u \in users : u.id # id} \cup {row}
                /\ Outcome("UpdateUser", args, "ok")
    /\ UNCHANGED <<ingredients, tags, recipes, recipe_tags, quantity_ingredients,
                   favorites, carts, seq, now>>

\* User.delete() is defined with the cascade below (DeleteUser).

\* ------------------------------------------------ declarations of the schema
\* MinValueValidator(limit_value)(value) passes.
MinValueValidator(limit_value, value) == value >= limit_value

MinCookingTime == 1

MinAmount == 1

AmountDefault == 1

\* Recipe.cooking_time: validators=[MinValueValidator(1, ...)].
CookingTimeValidators(value) == MinValueValidator(MinCookingTime, value)

\* Recipe.cooking_time is a PositiveSmallIntegerField: the column carries the
\* database check "cooking_time" >= 0.
CookingTimeDbCheck(value) == value >= 0

\* QuantityIngredient.amount: validators=[MinValueValidator(1, ...)].
AmountValidators(value) == MinValueValidator(MinAmount, value)

\* QuantityIngredient.amount is an IntegerField: a plain integer column.
AmountDbCheck(value) == value \in Int

\* DateTimeField.pre_save(model_instance, add).
DateTimePreSave(auto_now, auto_now_add, add, current, t) ==
    IF auto_now \/ (auto_now_add /\ add) THEN t ELSE current

\* Variant: the field declared auto_now=True.
PubDateAutoNow(add, current, t) == DateTimePreSave(TRUE, FALSE, add, current, t)

\* Recipe.pub_date = DateTimeField(auto_now_add=True).
PubDatePreSave(add, current, t) == DateTimePreSave(FALSE, TRUE, add, current, t)

\* The unique constraints: row collides with another row of rows.

\* Variant: unique=True on Ingredient.name alone.
UniqueIngredientByName(rows, row) ==
    \E r \in rows : r.id # row.id /\ r.name = row.name

\* Ingredient.Meta.constraints: UniqueConstraint(fields=('name', 'measurement_unit')).
unique_ingredient(rows, row) ==
    \E r \in rows : /\ r.id # row.id
                    /\ r.name = row.name
                    /\ r.measurement_unit = row.measurement_unit

\* Variant: the three fields unique together.
TagUniqueTogether(rows, row) ==
    \E r \in rows : /\ r.id # row.id
                    /\ r.name = row.name
                    /\ r.color = row.color
                    /\ r.slug = row.slug

\* Tag.name, Tag.color, Tag.slug: unique=True on each.
TagUnique(rows, row) ==
    \E r \in rows : /\ r.id # row.id
                    /\ (r.name = row.name \/ r.color = row.color \/ r.slug = row.slug)

\* Variant: amount among the fields of the constraint.
UniqueIngredientRecipeAmount(rows, row) ==
    \E r \in rows : /\ r.id # row.id
                    /\ r.ingredient = row.ingredient
                    /\ r.recipe = row.recipe
                    /\ r.amount = row.amount

\* QuantityIngredient.Meta.constraints: UniqueConstraint(fields=('ingredient', 'recipe')).
unique_ingredients_recipe(rows, row) ==
    \E r \in rows : /\ r.id # row.id
                    /\ r.ingredient = row.ingredient
                    /\ r.recipe = row.recipe

\* Variant: the table without the constraint.
UniqueFavoriteNever(rows, row) == FALSE

\* Favorite.Meta.constraints: UniqueConstraint(fields=('user', 'recipe')).
unique_for_favorite(rows, row) ==
    \E r \in rows : r.id # row.id /\ r.user = row.user /\ r.recipe = row.recipe

\* Cart.Meta.constraints: UniqueConstraint(fields=('user', 'recipe')).
unique_for_carts(rows, row) ==
    \E r \in rows : r.id # row.id /\ r.user = row.user /\ r.recipe = row.recipe

\* A ForeignKey column references an existing row.
ForeignKeyOk(id, rows) == id \in Ids(rows)

\* What save() ends with: full_clean() (when validate) reports a failed
\* validator, a unique collision or a missing referenced row as
\* ValidationError; the database reports a broken constraint as IntegrityError.
SaveStatus(validate, validatorsOk, constraintsOk) ==
    IF validate /\ ~(validatorsOk /\ constraintsOk) THEN "ValidationError"
    ELSE IF ~constraintsOk THEN "IntegrityError"
    ELSE "ok"

\* ------------------------------------------------------------------ on_delete
\* Variant: a foreign key declared on_delete=DO_NOTHING.
OnDeleteDoNothing == "DO_NOTHING"

RecipeAuthorOnDelete == "CASCADE"

QuantityIngredientOnDelete == "CASCADE"

QuantityRecipeOnDelete == "CASCADE"

FavoriteRecipeOnDelete == "CASCADE"

FavoriteUserOnDelete == "CASCADE"

CartRecipeOnDelete == "CASCADE"

CartUserOnDelete == "CASCADE"

\* The rows the deletion collector takes along through one foreign key.
Collected(on_delete, rows, field, ids) ==
    IF on_delete = "CASCADE" THEN {r \in rows : r[field] \in ids} ELSE {}

\* Model.delete() of the users U, recipes R, ingredients I and tags T: the
\* collector follows every foreign key that points at a collected row, and
\* delete() returns what it deleted.
Delete(op, U, R, I, T) ==
    LET delRecipes == {r \in recipes : r.id \in R}
                        \cup Collected(RecipeAuthorOnDelete, recipes, "author", U)
        RR == Ids(delRecipes)
        delQuantity ==
            Collected(QuantityIngredientOnDelete, quantity_ingredients, "ingredient", I)
              \cup Collected(QuantityRecipeOnDelete, quantity_ingredients, "recipe", RR)
        delFavorites ==
            Collected(FavoriteRecipeOnDelete, favorites, "recipe", RR)
              \cup Collected(FavoriteUserOnDelete, favorites, "user", U)
        delCarts ==
            Collected(CartRecipeOnDelete, carts, "recipe", RR)
              \cup Collected(CartUserOnDelete, carts, "user", U)
        delRecipeTags ==
            Collected("CASCADE", recipe_tags, "recipe", RR)
              \cup Collected("CASCADE", recipe_tags, "tag", T)
    IN  /\ users' = {u \in users : u.id \notin U}
        /\ ingredients' = {i \in ingredients : i.id \notin I}
        /\ tags' = {t \in tags : t.id \notin T}
        /\ recipes' = recipes \ delRecipes
        /\ recipe_tags' = recipe_tags \ delRecipeTags
        /\ quantity_ingredients' = quantity_ingredients \ delQuantity
        /\ favorites' = favorites \ delFavorites
        /\ carts' = carts \ delCarts
        /\ Outcome(op, [recipes |-> delRecipes, recipe_tags |-> delRecipeTags,
                        quantity_ingredients |-> delQuantity,
                        favorites |-> delFavorites, carts |-> delCarts], "ok")

\* user.delete()
DeleteUser(id) ==
    /\ id \in Ids(users)
    /\ Delete("DeleteUser", {id}, {}, {}, {})
    /\ UNCHANGED <<seq, now>>

\* recipe.delete()
DeleteRecipe(id) ==
    /\ id \in Ids(recipes)
    /\ Delete("DeleteRecipe", {}, {id}, {}, {})
    /\ UNCHANGED <<seq, now>>

\* ingredient.delete()
DeleteIngredient(id) ==
    /\ id \in Ids(ingredients)
    /\ Delete("DeleteIngredient", {}, {}, {id}, {})
    /\ UNCHANGED <<seq, now>>

\* tag.delete()
DeleteTag(id) ==
    /\ id \in Ids(tags)
    /\ Delete("DeleteTag", {}, {}, {}, {id})
    /\ UNCHANGED <<seq, now>>

\* ------------------------------------------------------------- Ingredient
IngredientSave(op, row, validate) ==
    LET status == SaveStatus(validate, TRUE, ~unique_ingredient(ingredients, row))
        args == [id |-> row.id, name |-> row.name,
                 measurement_unit |-> row.measurement_unit, validate |-> validate]
    IN  /\ Outcome(op, args, status)
        /\ IF status = "ok"
           THEN /\ ingredients' = {i \in ingredients : i.id # row.id} \cup {row}
                /\ seq' = [seq EXCEPT !.ingredients = IF row.id > @ THEN row.id ELSE @]
           ELSE UNCHANGED <<ingredients, seq>>
        /\ UNCHANGED <<users, tags, recipes, recipe_tags, quantity_ingredients,
                       favorites, carts, now>>

\* Ingredient(name=..., measurement_unit=...).save()
CreateIngredient(name, measurement_unit, validate) ==
    /\ seq.ingredients < MaxIngredientId
    /\ IngredientSave("CreateIngredient",
                      [id |-> seq.ingredients + 1, name |-> name,
                       measurement_unit |-> measurement_unit], validate)

\* ingredient.name = ...; ingredient.measurement_unit = ...; ingredient.save()
UpdateIngredient(id, name, measurement_unit, validate) ==
    /\ id \in Ids(ingredients)
    /\ IngredientSave("UpdateIngredient",
                      [id |-> id, name |-> name,
                       measurement_unit |-> measurement_unit], validate)

\* -------------------------------------------------------------------- Tag
TagSave(op, row, validate) ==
    LET status == SaveStatus(validate, TRUE, ~TagUnique(tags, row))
        args == [id |-> row.id, name |-> row.name, color |-> row.color,
                 slug |-> row.slug, validate |-> validate]
    IN  /\ Outcome(op, args, status)
        /\ IF status = "ok"
           THEN /\ tags' = {t \in tags : t.id # row.id} \cup {row}
                /\ seq' = [seq EXCEPT !.tags = IF row.id > @ THEN row.id ELSE @]
           ELSE UNCHANGED <<tags, seq>>
        /\ UNCHANGED <<users, ingredients, recipes, recipe_tags, quantity_ingredients,
                       favorites, carts, now>>

\* Tag(name=..., color=..., slug=...).save()
CreateTag(name, color, slug, validate) ==
    /\ seq.tags < MaxTagId
    /\ TagSave("CreateTag",
               [id |-> seq.tags + 1, name |-> name, color |-> color, slug |-> slug],
               validate)

\* tag.name = ...; tag.color = ...; tag.slug = ...; tag.save()
UpdateTag(id, name, color, slug, validate) ==
    /\ id \in Ids(tags)
    /\ TagSave("UpdateTag", [id |-> id, name |-> name, color |-> color, slug |-> slug],
               validate)

\* ----------------------------------------------------------------- Recipe
RecipeSave(op, row, validate) ==
    LET status == SaveStatus(validate,
                             CookingTimeValidators(row.cooking_time),
                             /\ ForeignKeyOk(row.author, users)
                             /\ CookingTimeDbCheck(row.cooking_time))
    IN  /\ Outcome(op, NoArgs, status)
        /\ IF status = "ok"
           THEN /\ recipes' = {r \in recipes : r.id # row.id} \cup {row}
                /\ seq' = [seq EXCEPT !.recipes = IF row.id > @ THEN row.id ELSE @]
           ELSE UNCHANGED <<recipes, seq>>
        /\ UNCHANGED <<users, ingredients, tags, recipe_tags, quantity_ingredients,
                       favorites, carts, now>>

\* Recipe(author=..., name=..., image=..., text=..., cooking_time=...).save()
CreateRecipe(author, name, image, text, cooking_time, validate) ==
    /\ seq.recipes < MaxRecipeId
    /\ RecipeSave("CreateRecipe",
                  [id |-> seq.recipes + 1, author |-> author, name |-> name,
                   image |-> image, text |-> text, cooking_time |-> cooking_time,
                   pub_date |-> PubDatePreSave(TRUE, now, now)], validate)

\* recipe.name = ...; ...; recipe.save()
UpdateRecipe(id, name, image, text, cooking_time, validate) ==
    /\ id \in Ids(recipes)
    /\ LET old == CHOOSE r \in recipes : r.id = id
       IN  RecipeSave("UpdateRecipe",
                      [id |-> id, author |-> old.author, name |-> name,
                       image |-> image, text |-> text, cooking_time |-> cooking_time,
                       pub_date |-> PubDatePreSave(FALSE, old.pub_date, now)], validate)

\* recipe.tags.add(tag): a row of the many-to-many table, once per pair.
AddRecipeTag(recipe, tag) ==
    /\ recipe \in Ids(recipes)
    /\ tag \in Ids(tags)
    /\ [recipe |-> recipe, tag |-> tag] \notin recipe_tags
    /\ recipe_tags' = recipe_tags \cup {[recipe |-> recipe, tag |-> tag]}
    /\ Outcome("AddRecipeTag", NoArgs, "ok")
    /\ UNCHANGED <<users, ingredients, tags, recipes, quantity_ingredients,
                   favorites, carts, seq, now>>

\* recipe.tags.remove(tag)
RemoveRecipeTag(recipe, tag) ==
    /\ [recipe |-> recipe, tag |-> tag] \in recipe_tags
    /\ recipe_tags' = recipe_tags \ {[recipe |-> recipe, tag |-> tag]}
    /\ Outcome("RemoveRecipeTag", NoArgs, "ok")
    /\ UNCHANGED <<users, ingredients, tags, recipes, quantity_ingredients,
                   favorites, carts, seq, now>>

\* ----------------------------------------------------- QuantityIngredient
QuantityIngredientSave(op, row, given, validate) ==
    LET status == SaveStatus(validate,
                             AmountValidators(row.amount),
                             /\ ForeignKeyOk(row.ingredient, ingredients)
                             /\ ForeignKeyOk(row.recipe, recipes)
                             /\ AmountDbCheck(row.amount)
                             /\ ~unique_ingredients_recipe(quantity_ingredients, row))
        args == [id |-> row.id, ingredient |-> row.ingredient, recipe |-> row.recipe,
                 amount |-> given]
    IN  /\ Outcome(op, args, status)
        /\ IF status = "ok"
           THEN /\ quantity_ingredients' =
                      {q \in quantity_ingredients : q.id # row.id} \cup {row}
                /\ seq' = [seq EXCEPT !.quantity_ingredients =
                                          IF row.id > @ THEN row.id ELSE @]
           ELSE UNCHANGED <<quantity_ingredients, seq>>
        /\ UNCHANGED <<users, ingredients, tags, recipes, recipe_tags,
                       favorites, carts, now>>

\* QuantityIngredient(ingredient=..., recipe=...[, amount=...]).save()
CreateQuantityIngredient(ingredient, recipe, amount, validate) ==
    /\ seq.quantity_ingredients < MaxQuantityId
    /\ QuantityIngredientSave("CreateQuantityIngredient",
                              [id |-> seq.quantity_ingredients + 1,
                               ingredient |-> ingredient, recipe |-> recipe,
                               amount |-> FieldValue(amount, AmountDefault)],
                              amount, validate)

\* row.ingredient = ...; row.recipe = ...; row.amount = ...; row.save()
UpdateQuantityIngredient(id, ingredient, recipe, amount, validate) ==
    /\ id \in Ids(quantity_ingredients)
    /\ QuantityIngredientSave("UpdateQuantityIngredient",
                              [id |-> id, ingredient |-> ingredient,
                               recipe |-> recipe, amount |-> amount],
                              {amount}, validate)

\* row.delete()
DeleteQuantityIngredient(id) ==
    /\ id \in Ids(quantity_ingredients)
    /\ quantity_ingredients' = {q \in quantity_ingredients : q.id # id}
    /\ Outcome("DeleteQuantityIngredient", NoArgs, "ok")
    /\ UNCHANGED <<users, ingredients, tags, recipes, recipe_tags,
                   favorites, carts, seq, now>>

\* ------------------------------------------------------- Favorite and Cart
\* Favorite.objects.create(user=..., recipe=...)
CreateFavorite(user, recipe) ==
    /\ seq.favorites < MaxFavoriteId
    /\ LET row == [id |-> seq.favorites + 1, recipe |-> recipe, user |-> user]
           status == SaveStatus(FALSE, TRUE,
                                /\ ForeignKeyOk(recipe, recipes)
                                /\ ForeignKeyOk(user, users)
                                /\ ~unique_for_favorite(favorites, row))
       IN  /\ Outcome("CreateFavorite", [user |-> user, recipe |-> recipe], status)
           /\ IF status = "ok"
              THEN /\ favorites' = favorites \cup {row}
                   /\ seq' = [seq EXCEPT !.favorites = row.id]
              ELSE UNCHANGED <<favorites, seq>>
    /\ UNCHANGED <<users, ingredients, tags, recipes, recipe_tags,
                   quantity_ingredients, carts, now>>

\* favorite.delete()
DeleteFavorite(id) ==
    /\ id \in Ids(favorites)
    /\ favorites' = {f \in favorites : f.id # id}
    /\ Outcome("DeleteFavorite", NoArgs, "ok")
    /\ UNCHANGED <<users, ingredients, tags, recipes, recipe_tags,
                   quantity_ingredients, carts, seq, now>>

\* Cart.objects.create(user=..., recipe=...)
CreateCart(user, recipe) ==
    /\ seq.carts < MaxCartId
    /\ LET row == [id |-> seq.carts + 1, recipe |-> recipe, user |-> user]
           status == SaveStatus(FALSE, TRUE,
                                /\ ForeignKeyOk(recipe, recipes)
                                /\ ForeignKeyOk(user, users)
                                /\ ~unique_for_carts(carts, row))
       IN  /\ Outcome("CreateCart", [user |-> user, recipe |-> recipe], status)
           /\ IF status = "ok"
              THEN /\ carts' = carts \cup {row}
                   /\ seq' = [seq EXCEPT !.carts = row.id]
              ELSE UNCHANGED <<carts, seq>>
    /\ UNCHANGED <<users, ingredients, tags, recipes, recipe_tags,
                   quantity_ingredients, favorites, now>>

\* cart.delete()
DeleteCart(id) ==
    /\ id \in Ids(carts)
    /\ carts' = {c \in carts : c.id # id}
    /\ Outcome("DeleteCart", NoArgs, "ok")
    /\ UNCHANGED <<users, ingredients, tags, recipes, recipe_tags,
                   quantity_ingredients, favorites, seq, now>>

\* ------------------------------------------------------------ specifications
UserIdInputs == 1..MaxUserId
RecipeIdInputs == 1..MaxRecipeId
IngredientIdInputs == 1..MaxIngredientId
TagIdInputs == 1..MaxTagId
QuantityIdInputs == 1..MaxQuantityId
FavoriteIdInputs == 1..MaxFavoriteId
CartIdInputs == 1..MaxCartId

\* Every operation with every input.
Next ==
    \/ Tick
    \/ \E role \in Optional(RoleInputs), validate \in BOOLEAN : CreateUser(role, validate)
    \/ \E id \in UserIdInputs, role \in RoleInputs, validate \in BOOLEAN :
          UpdateUser(id, role, validate)
    \/ \E id \in UserIdInputs : DeleteUser(id)
    \/ \E name \in IngredientNames, unit \in MeasurementUnits, validate \in BOOLEAN :
          CreateIngredient(name, unit, validate)
    \/ \E id \in IngredientIdInputs, name \in IngredientNames,
          unit \in MeasurementUnits, validate \in BOOLEAN :
          UpdateIngredient(id, name, unit, validate)
    \/ \E id \in IngredientIdInputs : DeleteIngredient(id)
    \/ \E name \in TagNames, color \in TagColors, slug \in TagSlugs, validate \in BOOLEAN :
          CreateTag(name, color, slug, validate)
    \/ \E id \in TagIdInputs, name \in TagNames, color \in TagColors,
          slug \in TagSlugs, validate \in BOOLEAN :
          UpdateTag(id, name, color, slug, validate)
    \/ \E id \in TagIdInputs : DeleteTag(id)
    \/ \E author \in UserIdInputs, name \in RecipeNames, image \in RecipeImages,
          text \in RecipeTexts, cooking_time \in CookingTimeInputs, validate \in BOOLEAN :
          CreateRecipe(author, name, image, text, cooking_time, validate)
    \/ \E id \in RecipeIdInputs, name \in RecipeNames, image \in RecipeImages,
          text \in RecipeTexts, cooking_time \in CookingTimeInputs, validate \in BOOLEAN :
          UpdateRecipe(id, name, image, text, cooking_time, validate)
    \/ \E id \in RecipeIdInputs : DeleteRecipe(id)
    \/ \E recipe \in RecipeIdInputs, tag \in TagIdInputs : AddRecipeTag(recipe, tag)
    \/ \E recipe \in RecipeIdInputs, tag \in TagIdInputs : RemoveRecipeTag(recipe, tag)
    \/ \E ingredient \in IngredientIdInputs, recipe \in RecipeIdInputs,
          amount \in Optional(AmountInputs), validate \in BOOLEAN :
          CreateQuantityIngredient(ingredient, recipe, amount, validate)
    \/ \E id \in QuantityIdInputs, ingredient \in IngredientIdInputs,
          recipe \in RecipeIdInputs, amount \in AmountInputs, validate \in BOOLEAN :
          UpdateQuantityIngredient(id, ingredient, recipe, amount, validate)
    \/ \E id \in QuantityIdInputs : DeleteQuantityIngredient(id)
    \/ \E user \in UserIdInputs, recipe \in RecipeIdInputs : CreateFavorite(user, recipe)
    \/ \E id \in FavoriteIdInputs : DeleteFavorite(id)
    \/ \E user \in UserIdInputs, recipe \in RecipeIdInputs : CreateCart(user, recipe)
    \/ \E id \in CartIdInputs : DeleteCart(id)

Spec == Init /\ [][Next]_vars

\* The specifications below are Spec restricted to the operations on the tables
\* a property reads, the other tables being filled through their validated
\* path with one value per field: every behaviour of theirs is one of Spec.

\* MaxFew caps a table a specification needs few rows of.
\* Plain rows for the tables a specification only needs filled.
PlainUser == CreateUser({}, TRUE)

PlainRecipe(author) == CreateRecipe(author, "soup", "", "boil", 1, TRUE)

PlainIngredient(name) == CreateIngredient(name, "g", TRUE)

PlainTag(name) == CreateTag(name, IF name = "breakfast" THEN "#49B64E" ELSE "#E26C2D",
                            name, TRUE)

\* Users and their role.
NextUsers ==
    \/ \E role \in Optional(RoleInputs), validate \in BOOLEAN : CreateUser(role, validate)
    \/ \E id \in UserIdInputs, role \in RoleInputs, validate \in BOOLEAN :
          UpdateUser(id, role, validate)
    \/ \E id \in UserIdInputs : DeleteUser(id)

SpecUsers == Init /\ [][NextUsers]_vars

\* Ingredients and tags.
NextCatalog ==
    \/ \E name \in IngredientNames, unit \in MeasurementUnits, validate \in BOOLEAN :
          CreateIngredient(name, unit, validate)
    \/ \E id \in IngredientIdInputs, name \in IngredientNames,
          unit \in MeasurementUnits, validate \in BOOLEAN :
          UpdateIngredient(id, name, unit, validate)
    \/ \E id \in IngredientIdInputs : DeleteIngredient(id)
    \/ \E name \in TagNames, color \in TagColors, slug \in TagSlugs, validate \in BOOLEAN :
          CreateTag(name, color, slug, validate)
    \/ \E id \in TagIdInputs, name \in TagNames, color \in TagColors,
          slug \in TagSlugs, validate \in BOOLEAN :
          UpdateTag(id, name, color, slug, validate)
    \/ \E id \in TagIdInputs : DeleteTag(id)

SpecCatalog == Init /\ [][NextCatalog]_vars

\* Favorites and carts over users and recipes.  Cart is declared as Favorite
\* is; the cap on its rows is raised with the other bounds.
NextFavCart ==
    \/ PlainUser
    \/ \E id \in UserIdInputs : DeleteUser(id)
    \/ \E author \in UserIdInputs : seq.recipes < MaxFew /\ PlainRecipe(author)
    \/ \E id \in 1..MaxFew : DeleteRecipe(id)
    \/ \E user \in UserIdInputs, recipe \in 1..MaxFew : CreateFavorite(user, recipe)
    \/ \E id \in FavoriteIdInputs : DeleteFavorite(id)
    \/ \E user \in UserIdInputs, recipe \in 1..MaxFew :
          seq.carts < MaxFew /\ CreateCart(user, recipe)
    \/ \E id \in 1..MaxFew : DeleteCart(id)

SpecFavCart == Init /\ [][NextFavCart]_vars

\* Quantity rows over recipes and ingredients: which pairs they hold.
NextQuantity ==
    \/ seq.users < MaxFew /\ PlainUser
    \/ \E author \in UserIdInputs : seq.recipes < MaxFew /\ PlainRecipe(author)
    \/ \E name \in IngredientNames : PlainIngredient(name)
    \/ \E ingredient \in IngredientIdInputs, recipe \in 1..MaxFew,
          validate \in BOOLEAN :
          CreateQuantityIngredient(ingredient, recipe, {}, validate)
    \/ \E id \in QuantityIdInputs, ingredient \in IngredientIdInputs,
          recipe \in 1..MaxFew, validate \in BOOLEAN :
          UpdateQuantityIngredient(id, ingredient, recipe, 2, validate)
    \/ \E id \in QuantityIdInputs : DeleteQuantityIngredient(id)

SpecQuantity == Init /\ [][NextQuantity]_vars

\* Quantity rows of one ingredient: which amounts they hold.
NextAmount ==
    \/ seq.users < MaxFew /\ PlainUser
    \/ \E author \in UserIdInputs : PlainRecipe(author)
    \/ PlainIngredient("salt")
    \/ \E ingredient \in IngredientIdInputs, recipe \in RecipeIdInputs,
          amount \in Optional(AmountInputs), validate \in BOOLEAN :
          CreateQuantityIngredient(ingredient, recipe, amount, validate)
    \/ \E id \in QuantityIdInputs, ingredient \in IngredientIdInputs,
          recipe \in RecipeIdInputs, amount \in AmountInputs, validate \in BOOLEAN :
          UpdateQuantityIngredient(id, ingredient, recipe, amount, validate)
    \/ \E id \in QuantityIdInputs : DeleteQuantityIngredient(id)

SpecAmount == Init /\ [][NextAmount]_vars

\* Recipes and their cooking time.
NextCooking ==
    \/ PlainUser
    \/ \E author \in UserIdInputs, cooking_time \in CookingTimeInputs, validate \in BOOLEAN :
          CreateRecipe(author, "soup", "", "boil", cooking_time, validate)
    \/ \E id \in RecipeIdInputs, cooking_time \in CookingTimeInputs, validate \in BOOLEAN :
          UpdateRecipe(id, "soup", "", "boil", cooking_time, validate)
    \/ \E id \in RecipeIdInputs : DeleteRecipe(id)

SpecCooking == Init /\ [][NextCooking]_vars

\* The life of a recipe as time passes: its fields, tags and ingredients change.
\* RecipeEdits: a recipe as first written, and with each one of its fields changed.
RecipeEdits ==
    {[name |-> "soup", image |-> "", text |-> "boil", cooking_time |-> 1],
     [name |-> "pie", image |-> "", text |-> "boil", cooking_time |-> 1],
     [name |-> "soup", image |-> "recipes/images/a.png", text |-> "boil", cooking_time |-> 1],
     [name |-> "soup", image |-> "", text |-> "bake", cooking_time |-> 1],
     [name |-> "soup", image |-> "", text |-> "boil", cooking_time |-> 2]}

NextPubDate ==
    \/ Tick
    \/ seq.users < MaxFew /\ PlainUser
    \/ PlainTag("breakfast")
    \/ PlainIngredient("salt")
    \/ \E author \in 1..MaxFew :
          seq.recipes < MaxFew /\ PlainRecipe(author)
    \/ \E id \in 1..MaxFew, e \in RecipeEdits :
          UpdateRecipe(id, e.name, e.image, e.text, e.cooking_time, TRUE)
    \/ \E recipe \in 1..MaxFew, tag \in TagIdInputs : AddRecipeTag(recipe, tag)
    \/ \E recipe \in 1..MaxFew, tag \in TagIdInputs : RemoveRecipeTag(recipe, tag)
    \/ \E ingredient \in IngredientIdInputs, recipe \in 1..MaxFew :
          CreateQuantityIngredient(ingredient, recipe, {}, TRUE)
    \/ \E id \in QuantityIdInputs : DeleteQuantityIngredient(id)

SpecPubDate == Init /\ [][NextPubDate]_vars

\* Deletions of users and ingredients over a filled database.
NextCascade ==
    \/ PlainUser
    \/ \E author \in UserIdInputs : PlainRecipe(author)
    \/ \E name \in IngredientNames : PlainIngredient(name)
    \/ PlainTag("breakfast")
    \/ \E recipe \in RecipeIdInputs, tag \in TagIdInputs : AddRecipeTag(recipe, tag)
    \/ \E ingredient \in IngredientIdInputs, recipe \in RecipeIdInputs :
          CreateQuantityIngredient(ingredient, recipe, {}, TRUE)
    \/ \E user \in UserIdInputs, recipe \in RecipeIdInputs :
          seq.favorites < MaxFew /\ CreateFavorite(user, recipe)
    \/ \E user \in UserIdInputs, recipe \in RecipeIdInputs :
          seq.carts < MaxFew /\ CreateCart(user, recipe)
    \/ \E id \in UserIdInputs : DeleteUser(id)
    \/ \E id \in IngredientIdInputs : DeleteIngredient(id)

SpecCascade == Init /\ [][NextCascade]_vars

\* ================================================================ properties
SamePair(a, b) == a.user = b.user /\ a.recipe = b.recipe

NoDuplicatePair(rows) == \A a, b \in rows : SamePair(a, b) => a = b

\* A step of Model.objects.create(user=..., recipe=...) on the table rows:
\* a pair some row has is rejected, and a rejected create writes nothing;
\* an accepted one adds exactly the new row.
CreatePairStep(op, rows, rowsNext) ==
    last'.op = op =>
        /\ (\E f \in rows : SamePair(f, last'.args)) => last'.status = "IntegrityError"
        /\ last'.status # "ok" => rowsNext = rows
        /\ last'.status = "ok" =>
              \E row \in rowsNext : /\ row \notin rows
                                    /\ rowsNext = rows \cup {row}
                                    /\ SamePair(row, last'.args)

References(rows) ==
    \A f \in rows : f.user \in Ids(users) /\ f.recipe \in Ids(recipes)

\* C2: every Favorite row and every Cart row references a user and a recipe
\* that exist: deleting a user or a recipe removes the rows that reference it.
C2_FavoriteCartReferencesExist == References(favorites) /\ References(carts)

\* A user's deletion took a Favorite and a Cart along.
C2_Witness ==
    /\ last.op = "DeleteUser"
    /\ last.args.favorites # {}
    /\ last.args.carts # {}
    /\ last.args.recipes = {}
    /\ recipes # {}

SameIngredientRecipe(a, b) == a.ingredient = b.ingredient /\ a.recipe = b.recipe

NoDuplicateIngredientRecipe(rows) ==
    \A a, b \in rows : SameIngredientRecipe(a, b) => a = b

QuantityOps == {"CreateQuantityIngredient", "UpdateQuantityIngredient"}

\* A save of a QuantityIngredient row: when another row holds its
\* (ingredient, recipe) pair the save is refused, and a refused save writes
\* nothing.
QuantitySaveStep ==
    last'.op \in QuantityOps =>
        /\ (\E q \in quantity_ingredients :
               q.id # last'.args.id /\ SameIngredientRecipe(q, last'.args))
              => last'.status # "ok"
        /\ last'.status # "ok" => quantity_ingredients' = quantity_ingredients

\* C3: no two distinct QuantityIngredient rows share an (ingredient, recipe)
\* pair, whatever rows are created, updated and deleted.
C3_OneQuantityPerIngredient ==
    /\ []NoDuplicateIngredientRecipe(quantity_ingredients)
    /\ [][QuantitySaveStep]_vars

\* An update that moves a row onto the pair of another row has been refused.
C3_Witness ==
    /\ last.op = "UpdateQuantityIngredient"
    /\ last.status = "IntegrityError"
    /\ \E q \in quantity_ingredients :
          q.id # last.args.id /\ SameIngredientRecipe(q, last.args)
    /\ \E q \in quantity_ingredients :
          q.id = last.args.id /\ ~SameIngredientRecipe(q, last.args)

\* The row the last successful create inserted into a table.
Created(rows, table) == {r \in rows : r.id = seq[table]}

\* C4: every stored QuantityIngredient row has amount >= 1, also after a save
\* that runs no validators, and a row created without an amount has amount 1.
C4_AmountAtLeastOne ==
    /\ \A q \in quantity_ingredients : q.amount >= 1
    /\ (last.op = "CreateQuantityIngredient" /\ last.status = "ok"
          /\ last.args.amount = {})
          => \A q \in Created(quantity_ingredients, "quantity_ingredients") :
                q.amount = 1

\* C5: every stored Recipe row has cooking_time >= 1, also after a save that
\* runs no validators.
C5_CookingTimeAtLeastOne == \A r \in recipes : r.cooking_time >= 1

\* C6: a recipe's pub_date is set when its row is created and no later update
\* of the recipe, its tags or its ingredients changes it.
C6_PubDateSetOnce ==
    [][/\ \A r \in recipes : \A r2 \in recipes' :
             r2.id = r.id => r2.pub_date = r.pub_date
       /\ \A r2 \in recipes' : r2.id \notin Ids(recipes) => r2.pub_date = now]_vars

\* A recipe written earlier has just been updated, its cooking time among the
\* changes, and carries a tag and an ingredient.
C6_Witness ==
    /\ last.op = "UpdateRecipe"
    /\ last.status = "ok"
    /\ \E r \in recipes : /\ r.pub_date < now
                          /\ r.cooking_time = 2
                          /\ \E t \in recipe_tags : t.recipe = r.id
                          /\ \E q \in quantity_ingredients : q.recipe = r.id

SameIngredient(a, b) == a.name = b.name /\ a.measurement_unit = b.measurement_unit

IngredientOps == {"CreateIngredient", "UpdateIngredient"}

\* A save of an Ingredient row is refused exactly when another row has both
\* its name and its measurement unit, and a refused save writes nothing.
IngredientSaveStep ==
    last'.op \in IngredientOps =>
        /\ last'.status # "ok" <=>
              \E i \in ingredients : i.id # last'.args.id /\ SameIngredient(i, last'.args)
        /\ last'.status # "ok" => ingredients' = ingredients
        /\ last'.status = "ok" =>
              \E i \in ingredients' : i.id = last'.args.id /\ SameIngredient(i, last'.args)

\* C7: no two distinct Ingredient rows have the same name and the same
\* measurement unit, after creations and after updates of either field, while
\* rows that share only the name, or only the unit, are accepted.
C7_UniqueNameAndUnit ==
    /\ [](\A a, b \in ingredients : SameIngredient(a, b) => a = b)
    /\ [][IngredientSaveStep]_vars

\* Two ingredients of one name and different units are stored, an update of
\* the unit having just been accepted.
C7_Witness ==
    /\ last.op = "UpdateIngredient"
    /\ last.status = "ok"
    /\ \E a, b \in ingredients : /\ a.id = last.args.id
                                 /\ a.name = b.name
                                 /\ a.measurement_unit # b.measurement_unit

TagCollision(a, b) == a.name = b.name \/ a.color = b.color \/ a.slug = b.slug

TagOps == {"CreateTag", "UpdateTag"}

\* A save of a Tag row is refused when another row has its name, its color or
\* its slug, and a refused save writes nothing.
TagSaveStep ==
    last'.op \in TagOps =>
        /\ (\E t \in tags : t.id # last'.args.id /\ TagCollision(t, last'.args))
              => last'.status # "ok"
        /\ last'.status # "ok" => tags' = tags

\* C8: no two distinct Tag rows share a name, none share a color and none
\* share a slug; a create or an update that collides with another tag on one
\* of the three fields is refused.
C8_TagFieldsUniqueEach ==
    /\ [](\A a, b \in tags : TagCollision(a, b) => a = b)
    /\ [][TagSaveStep]_vars

\* An update that takes over the color of another tag, and neither its name
\* nor its slug, has been refused.
C8_Witness ==
    /\ last.op = "UpdateTag"
    /\ last.status # "ok"
    /\ \E t \in tags : /\ t.id # last.args.id
                       /\ t.color = last.args.color
                       /\ t.name # last.args.name
                       /\ t.slug # last.args.slug
    /\ \A t \in tags : t.id # last.args.id =>
                          t.name # last.args.name /\ t.slug # last.args.slug

\* C9: every User row's role is one of guest, authorized and admin, and a
\* user created without a role has role guest.
C9_RoleInChoices ==
    /\ \A u \in users : u.role \in {"guest", "authorized", "admin"}
    /\ (last.op = "CreateUser" /\ last.status = "ok" /\ last.args.role = {})
          => \A u \in Created(users, "users") : u.role = "guest"

NoDanglingReference ==
    /\ \A r \in recipes : r.author \in Ids(users)
    /\ \A q \in quantity_ingredients :
          q.recipe \in Ids(recipes) /\ q.ingredient \in Ids(ingredients)
    /\ \A t \in recipe_tags : t.recipe \in Ids(recipes) /\ t.tag \in Ids(tags)
    /\ References(favorites)
    /\ References(carts)

\* What the deletion of a user leaves: the other users, the recipes of other
\* authors, and the rows that reference neither the user nor a recipe of theirs.
DeleteUserStep ==
    last'.op = "DeleteUser" =>
        LET gone == Ids(users) \ Ids(users')
            kept == {r \in recipes : r.author \notin gone}
        IN  /\ Cardinality(gone) = 1
            /\ users' = {u \in users : u.id \notin gone}
            /\ recipes' = kept
            /\ quantity_ingredients' =
                  {q \in quantity_ingredients : q.recipe \in Ids(kept)}
            /\ recipe_tags' = {t \in recipe_tags : t.recipe \in Ids(kept)}
            /\ favorites' =
                  {f \in favorites : f.user \notin gone /\ f.recipe \in Ids(kept)}
            /\ carts' = {c \in carts : c.user \notin gone /\ c.recipe \in Ids(kept)}
            /\ ingredients' = ingredients
            /\ tags' = tags

\* What the deletion of an ingredient leaves: everything but the ingredient
\* and its quantity rows.
DeleteIngredientStep ==
    last'.op = "DeleteIngredient" =>
        LET gone == Ids(ingredients) \ Ids(ingredients')
        IN  /\ Cardinality(gone) = 1
            /\ ingredients' = {i \in ingredients : i.id \notin gone}
            /\ quantity_ingredients' =
                  {q \in quantity_ingredients : q.ingredient \notin gone}
            /\ UNCHANGED <<users, recipes, tags, recipe_tags, favorites, carts>>

\* C10: deleting a user deletes the recipes they wrote and, with them, every
\* quantity row, Favorite and Cart that references these, other users' rows
\* included; deleting an ingredient deletes its quantity rows; no row is left
\* that references a deleted row, and the other users, ingredients, tags and
\* the recipes of other authors stay as they were.
C10_CascadeReachesDependantsOnly ==
    /\ []NoDanglingReference
    /\ [][DeleteUserStep /\ DeleteIngredientStep]_vars

\* A user's deletion took their recipe, its tag row and its quantity row, a
\* remaining user's Favorite of it and a Cart along, and left another author's
\* recipe, with a quantity row of its own.
C10_Witness ==
    /\ last.op = "DeleteUser"
    /\ last.args.recipes # {}
    /\ last.args.recipe_tags # {}
    /\ last.args.quantity_ingredients # {}
    /\ \E f \in last.args.favorites : f.user \in Ids(users)
    /\ last.args.carts # {}
    /\ recipes # {}
    /\ quantity_ingredients # {}
    /\ tags # {}
    /\ ingredients # {}
====
